---------------------------- MODULE Spec2Model ----------------------------
(***************************************************************************)
(* Model of the Deribit options collection scripts: the market-name        *)
(* parsers (market_utils.py, analyze_catalog.py), the expiry grouper and   *)
(* window calculator (market_utils.py), the entry point (main.py) and the  *)
(* batched fetch orchestrator (greeks.py, identical in shape to            *)
(* implied_volatility.py).                                                 *)
(*                                                                         *)
(* Strings are sequences of one-character strings.  Python's None is the   *)
(* one-element sequence NoneVal, whose element is no character.            *)
(* A datetime is proleptic ordinal * HoursPerDay + hour of day, a date is  *)
(* its proleptic ordinal (0001-01-01 is day 1).                            *)
(***************************************************************************)
EXTENDS Integers, Sequences, FiniteSets, TLC

VARIABLES
    \* ---- parser harness (SpecParse) ----
    market_name,        \* the argument handed to the three parsers
    applied,            \* which parsers have been applied to market_name
    expiration_date,    \* market_utils.extract_expiration_date(market_name)
    expiration_str,     \* analyze_catalog.extract_expiration_date(market_name)
    strike_type,        \* analyze_catalog.extract_strike_and_type(market_name)
    \* ---- a collection run (Spec) ----
    script,             \* which file is run as __main__
    api_key,            \* whether CM_API_KEY is set in the environment
    args,               \* main.py's --start-date / --end-date
    utcnow,             \* what datetime.utcnow() returns in main.py
    start_date,         \* start_date handed to save_greeks_data
    end_date,           \* end_date handed to save_greeks_data
    days_before_expiry, \* lookback handed to save_greeks_data
    remote,             \* the market names the catalog endpoint holds
    catalog,            \* the DataFrame get_markets_with_expiry returns
    grouped_markets,    \* the dict fetch_markets_by_expiry_date returns
    tasks,              \* the coroutines of save_greeks_data, one per group
    i,                  \* the batch loop's index
    ready,              \* the event loop's FIFO of tasks scheduled to run
    results,            \* save_greeks_data's results list
    successful,         \* results.count(True)
    pc,                 \* where the run is
    err,                \* the exception that left the run, if any
    returned,           \* what save_greeks_data returned to its caller
    \* ---- observations of the run (history) ----
    batches,            \* the slices handed to asyncio.gather, in order
    pauses,             \* how often asyncio.sleep(2) was awaited
    calls,              \* the fetch/export calls made, in order
    catalog_calls,      \* how often the catalog endpoint was called
    peak                \* most fetch calls in flight at once, this batch

parseVars == <<market_name, applied, expiration_date, expiration_str,
               strike_type>>
runVars == <<script, api_key, args, utcnow, start_date, end_date,
             days_before_expiry, remote, catalog, grouped_markets, tasks, i,
             ready, results, successful, pc, err, returned, batches, pauses,
             calls, catalog_calls, peak>>
vars == <<parseVars, runVars>>

-----------------------------------------------------------------------------
(* Characters and Python string primitives *)

NoneVal == <<"None">>

Digits == {"0", "1", "2", "3", "4", "5", "6", "7", "8", "9"}

Upper == {"A", "B", "C", "D", "E", "F", "G", "H", "I", "J", "K", "L", "M",
          "N", "O", "P", "Q", "R", "S", "T", "U", "V", "W", "X", "Y", "Z"}

Min(a, b) == IF a <= b THEN a ELSE b

Max(a, b) == IF a >= b THEN a ELSE b

DigitVal(c) ==
    CASE c = "0" -> 0 [] c = "1" -> 1 [] c = "2" -> 2 [] c = "3" -> 3
      [] c = "4" -> 4 [] c = "5" -> 5 [] c = "6" -> 6 [] c = "7" -> 7
      [] c = "8" -> 8 [] c = "9" -> 9

\* int()/float() of a string of decimal digits
RECURSIVE DecVal(_)
DecVal(s) ==
    IF s = << >> THEN 0
    ELSE 10 * DecVal(SubSeq(s, 1, Len(s) - 1)) + DigitVal(s[Len(s)])

\* s[a:b] for 0 <= a <= b: Python slices clip at the end of the string
Slice(s, a, b) == SubSeq(s, a + 1, Min(b, Len(s)))

\* s.split('-')
RECURSIVE SplitFrom(_, _, _)
SplitFrom(s, k, cur) ==
    IF k > Len(s) THEN <<cur>>
    ELSE IF s[k] = "-" THEN <<cur>> \o SplitFrom(s, k + 1, << >>)
    ELSE SplitFrom(s, k + 1, Append(cur, s[k]))

Split(s) == SplitFrom(s, 1, << >>)

\* the length of the run of digits of s that starts at position k
RECURSIVE DigitRun(_, _)
DigitRun(s, k) ==
    IF k <= Len(s) /\ s[k] \in Digits THEN 1 + DigitRun(s, k + 1) ELSE 0

\* variant: r'-[0-9]*([0-9]{2}[A-Z]{3}[0-9]{2})-', the group taken from the
\* last two digits of the run on
MatchAtLastTwoDigits(s, k) ==
    LET n == DigitRun(s, k + 1)
        p == k + 1 + n
    IN  IF /\ s[k] = "-"
           /\ n >= 2
           /\ p + 5 <= Len(s)
           /\ s[p] \in Upper /\ s[p + 1] \in Upper /\ s[p + 2] \in Upper
           /\ s[p + 3] \in Digits /\ s[p + 4] \in Digits
           /\ s[p + 5] = "-"
        THEN <<p - 2, p + 4>>
        ELSE << >>

\* variant: r'-([0-9]+[A-Z]{3}[0-9]{2})', the closing hyphen not required
MatchAtOpenEnd(s, k) ==
    LET n == DigitRun(s, k + 1)
        p == k + 1 + n
    IN  IF /\ s[k] = "-"
           /\ n >= 1
           /\ p + 4 <= Len(s)
           /\ s[p] \in Upper /\ s[p + 1] \in Upper /\ s[p + 2] \in Upper
           /\ s[p + 3] \in Digits /\ s[p + 4] \in Digits
        THEN <<k + 1, p + 4>>
        ELSE << >>

\* r'-([0-9]+[A-Z]{3}[0-9]{2})-' matched at position k of s: the positions
\* <<first, last>> of group 1, or << >>.  [0-9]+ is followed by a letter,
\* so only the whole run of digits can match.
MatchAt(s, k) ==
    LET n == DigitRun(s, k + 1)
        p == k + 1 + n
    IN  IF /\ s[k] = "-"
           /\ n >= 1
           /\ p + 5 <= Len(s)
           /\ s[p] \in Upper /\ s[p + 1] \in Upper /\ s[p + 2] \in Upper
           /\ s[p + 3] \in Digits /\ s[p + 4] \in Digits
           /\ s[p + 5] = "-"
        THEN <<k + 1, p + 4>>
        ELSE << >>

\* re.search(r'-([0-9]+[A-Z]{3}[0-9]{2})-', s).group(1): the leftmost match,
\* or NoneVal
ReSearch(s) ==
    LET hits == {k \in 1..Len(s) : MatchAt(s, k) # << >>}
    IN  IF hits = {} THEN NoneVal
        ELSE LET k == CHOOSE h \in hits : \A g \in hits : h <= g
                 m == MatchAt(s, k)
             IN  SubSeq(s, m[1], m[2])

MonthCodes == <<
    <<"J", "A", "N">>, <<"F", "E", "B">>, <<"M", "A", "R">>,
    <<"A", "P", "R">>, <<"M", "A", "Y">>, <<"J", "U", "N">>,
    <<"J", "U", "L">>, <<"A", "U", "G">>, <<"S", "E", "P">>,
    <<"O", "C", "T">>, <<"N", "O", "V">>, <<"D", "E", "C">> >>

MonthNumbers == <<
    <<"0", "1">>, <<"0", "2">>, <<"0", "3">>, <<"0", "4">>, <<"0", "5">>,
    <<"0", "6">>, <<"0", "7">>, <<"0", "8">>, <<"0", "9">>, <<"1", "0">>,
    <<"1", "1">>, <<"1", "2">> >>

\* month_abbr in month_map
InMonthMap(abbr) == \E m \in 1..12 : MonthCodes[m] = abbr

\* month_map[month_abbr]
month_map(abbr) == MonthNumbers[CHOOSE m \in 1..12 : MonthCodes[m] = abbr]

IsString(x) == x # NoneVal

-----------------------------------------------------------------------------
(* The market-name parsers *)

\* variant: the century prefix mistyped
TwentyWrong == <<"1", "9">>

\* '20' of  year = '20' + date_str[5:7]
Twenty == <<"2", "0">>

\* day = date_str[:2]
DayPart(date_str) == Slice(date_str, 0, 2)

\* market_utils.extract_expiration_date: "YYYY-MM-DD", or NoneVal.  A
\* market_name that is no string makes re.search raise TypeError, which
\* except Exception turns into None.
extract_expiration_date(name) ==
    IF ~IsString(name) THEN NoneVal
    ELSE LET date_str == ReSearch(name)
         IN  IF date_str = NoneVal THEN NoneVal
             ELSE LET day == DayPart(date_str)
                      month_abbr == Slice(date_str, 2, 5)
                      year == Twenty \o Slice(date_str, 5, 7)
                  IN  IF InMonthMap(month_abbr)
                      THEN year \o <<"-">> \o month_map(month_abbr)
                                \o <<"-">> \o day
                      ELSE NoneVal

TimeSuffix == <<"T", "0", "8", ":", "0", "0", ":", "0", "0", "+", "0", "0",
                ":", "0", "0">>

\* analyze_catalog.extract_expiration_date: "YYYY-MM-DDT08:00:00+00:00",
\* or NoneVal
analyze_extract_expiration_date(name) ==
    IF ~IsString(name) THEN NoneVal
    ELSE LET date_str == ReSearch(name)
         IN  IF date_str = NoneVal THEN NoneVal
             ELSE LET day == Slice(date_str, 0, 2)
                      month_abbr == Slice(date_str, 2, 5)
                      year == <<"2", "0">> \o Slice(date_str, 5, 7)
                  IN  IF InMonthMap(month_abbr)
                      THEN year \o <<"-">> \o month_map(month_abbr)
                                \o <<"-">> \o day \o TimeSuffix
                      ELSE NoneVal

\* float(s) succeeds.  The identifiers of this model hold letters, digits
\* and hyphens only, and no field spells inf, nan or infinity, so a field
\* is a float literal exactly when it is a non-empty string of digits.
IsFloatLiteral(s) == s # << >> /\ \A k \in 1..Len(s) : s[k] \in Digits

\* variant: the fields counted from 1, strike and type taken from the
\* fourth and fifth field of a name with at least five
extract_strike_and_type_five(name) ==
    IF ~IsString(name)
    THEN [has_strike |-> FALSE, strike |-> 0, option_type |-> NoneVal]
    ELSE LET parts == Split(name)
         IN  IF Len(parts) >= 5
             THEN IF IsFloatLiteral(parts[4])
                  THEN [has_strike |-> TRUE, strike |-> DecVal(parts[4]),
                        option_type |-> parts[5]]
                  ELSE [has_strike |-> FALSE, strike |-> 0,
                        option_type |-> parts[5]]
             ELSE [has_strike |-> FALSE, strike |-> 0,
                   option_type |-> NoneVal]

\* analyze_catalog.extract_strike_and_type: (strike, option_type), with
\* has_strike = FALSE for strike None and option_type NoneVal for None
extract_strike_and_type(name) ==
    IF ~IsString(name)
    THEN [has_strike |-> FALSE, strike |-> 0, option_type |-> NoneVal]
    ELSE LET parts == Split(name)
         IN  IF Len(parts) >= 6
             THEN IF IsFloatLiteral(parts[5])
                  THEN [has_strike |-> TRUE, strike |-> DecVal(parts[5]),
                        option_type |-> parts[6]]
                  ELSE [has_strike |-> FALSE, strike |-> 0,
                        option_type |-> parts[6]]
             ELSE [has_strike |-> FALSE, strike |-> 0,
                   option_type |-> NoneVal]

-----------------------------------------------------------------------------
(* Calendar arithmetic of datetime / pandas.Timestamp *)

HoursPerDay == 24

IsLeap(y) == (y % 4 = 0 /\ y % 100 # 0) \/ y % 400 = 0

DaysInMonth(y, m) ==
    IF m = 2 THEN (IF IsLeap(y) THEN 29 ELSE 28)
    ELSE IF m \in {4, 6, 9, 11} THEN 30 ELSE 31

RECURSIVE DaysBeforeMonth(_, _)
DaysBeforeMonth(y, m) ==
    IF m = 1 THEN 0 ELSE DaysBeforeMonth(y, m - 1) + DaysInMonth(y, m - 1)

\* date(y, m, d).toordinal(): 0001-01-01 is day 1
Ordinal(y, m, d) ==
    LET b == y - 1
    IN  b * 365 + (b \div 4) - (b \div 100) + (b \div 400)
          + DaysBeforeMonth(y, m) + d

IsValidDate(y, m, d) ==
    /\ y \in 1..9999
    /\ m \in 1..12
    /\ d \in 1..DaysInMonth(y, m)

\* datetime(y, m, d, h)
Datetime(y, m, d, h) == Ordinal(y, m, d) * HoursPerDay + h

\* Timestamp.date() / Series.dt.date: the calendar day, as an ordinal
DateOf(ts) == ts \div HoursPerDay

\* the fields of the "YYYY-MM-DD" string extract_expiration_date builds
IsoYear(iso) == DecVal(SubSeq(iso, 1, 4))

IsoMonth(iso) == DecVal(SubSeq(iso, 6, 7))

IsoDay(iso) == DecVal(SubSeq(iso, 9, 10))

\* pd.to_datetime raises on a string that names no calendar date
ToDatetimeRaises(iso) == ~IsValidDate(IsoYear(iso), IsoMonth(iso), IsoDay(iso))

\* pd.to_datetime("YYYY-MM-DD"): midnight of that day
ToDatetime(iso) == Datetime(IsoYear(iso), IsoMonth(iso), IsoDay(iso), 0)

\* datetime.min is 0001-01-01T00:00; a datetime before it is OverflowError
MinDatetime == Datetime(1, 1, 1, 0)

WindowRaises(expiry_date, n) ==
    expiry_date * HoursPerDay - n * HoursPerDay < MinDatetime

\* variant: the expiry day is counted as one of the n days
calculate_data_period_inclusive(expiry_date, n) ==
    LET expiry_datetime == expiry_date * HoursPerDay
    IN  <<expiry_datetime - (n - 1) * HoursPerDay, expiry_datetime>>

\* calculate_data_period_for_expiry(expiry_date, days_before_expiry):
\* (start_time, end_time), with expiry_date a date (an ordinal)
calculate_data_period_for_expiry(expiry_date, n) ==
    LET expiry_datetime == expiry_date * HoursPerDay
    IN  <<expiry_datetime - n * HoursPerDay, expiry_datetime>>

-----------------------------------------------------------------------------
(* Inputs: market identifiers, catalogs, command lines *)

\* most expiry dates (days of December 2024) the largest catalog holds
MaxGroups == 12

Hyphen == <<"-">>

DigitChar(n) ==
    CASE n = 0 -> "0" [] n = 1 -> "1" [] n = 2 -> "2" [] n = 3 -> "3"
      [] n = 4 -> "4" [] n = 5 -> "5" [] n = 6 -> "6" [] n = 7 -> "7"
      [] n = 8 -> "8" [] n = 9 -> "9"

TwoDigits(n) == <<DigitChar(n \div 10), DigitChar(n % 10)>>

\* <exch>-<asset>-<token>-<strike>-<type>-option
Identifier(token, strike, option_type) ==
    <<"d", "e", "r", "i", "b", "i", "t">> \o Hyphen \o <<"B", "T", "C">>
      \o Hyphen \o token \o Hyphen \o strike \o Hyphen \o option_type
      \o Hyphen \o <<"o", "p", "t", "i", "o", "n">>

MarketName(dd, mmm, yy, strike, option_type) ==
    Identifier(dd \o mmm \o yy, strike, option_type)

Strike100000 == <<"1", "0", "0", "0", "0", "0">>

Strike34000 == <<"3", "4", "0", "0", "0">>

DEC == MonthCodes[12]

\* deribit-BTC-<dd>DEC24-100000-<C|P>-option
Dec24(d, option_type) ==
    MarketName(TwoDigits(d), DEC, <<"2", "4">>, Strike100000, option_type)

Perpetual ==
    <<"d", "e", "r", "i", "b", "i", "t">> \o Hyphen \o <<"B", "T", "C">>
      \o Hyphen \o <<"P", "E", "R", "P", "E", "T", "U", "A", "L">>

OneDigitDay == Identifier(<<"5", "A", "P", "R", "2", "2">>, Strike34000, <<"C">>)

ThreeDigitDay ==
    Identifier(<<"1", "2", "3", "A", "P", "R", "2", "2">>, Strike34000, <<"C">>)

UnknownMonth ==
    Identifier(<<"1", "0", "X", "X", "X", "2", "2">>, Strike34000, <<"P">>)

NoSuchDay ==
    Identifier(<<"3", "1", "F", "E", "B", "2", "4">>, Strike34000, <<"C">>)

\* December days MaxGroups..1 in descending order, a second market on two
\* of them, and one market before and one after every range asked for
BigCatalog ==
    <<MarketName(<<"0", "1">>, MonthCodes[10], <<"2", "4">>, Strike34000, <<"C">>)>>
      \o [k \in 1..MaxGroups |-> Dec24(MaxGroups + 1 - k, <<"C">>)]
      \o <<Dec24(1, <<"P">>), Dec24(2, <<"P">>),
           MarketName(<<"1", "0">>, MonthCodes[1], <<"2", "5">>, Strike34000, <<"P">>)>>

SmallCatalog == <<Dec24(13, <<"C">>), Dec24(20, <<"P">>)>>

MixedCatalog ==
    <<Perpetual, Dec24(3, <<"C">>), OneDigitDay, NoneVal, ThreeDigitDay,
      UnknownMonth, Dec24(3, <<"P">>)>>

BadDateCatalog == <<Dec24(3, <<"C">>), NoSuchDay>>

Catalogs == {BigCatalog, SmallCatalog, MixedCatalog, BadDateCatalog}

\* an absent --start-date / --end-date
NoDate == [y |-> 0, m |-> 0, d |-> 0]

Dec2024(d) == [y |-> 2024, m |-> 12, d |-> d]

StartArgs == {NoDate, Dec2024(1)}

EndArgs == {NoDate, Dec2024(2), Dec2024(5), Dec2024(6), Dec2024(10),
            Dec2024(31),
            [y |-> 2024, m |-> 11, d |-> 20]}

\* a lookback that reaches before datetime.min for expiries up to
\* 2024-12-03 and not for later ones
HugeLookback == Ordinal(2024, 12, 3)

Lookbacks == {0, 22, HugeLookback}

Nows == {Datetime(2024, 12, 31, 14)}

\* the identifiers handed to the parsers one at a time
ParserDays == {<<"0", "1">>, <<"1", "0">>, <<"2", "9">>, <<"3", "1">>}

ParserYears == {<<"2", "2">>, <<"2", "4">>, <<"9", "9">>}

ParserStrikes == {Strike34000, Strike100000, <<"5", "0", "0">>}

WellFormed ==
    {MarketName(dd, MonthCodes[m], yy, k, t) :
        dd \in ParserDays, m \in 1..12, yy \in ParserYears,
        k \in ParserStrikes, t \in {<<"C">>, <<"P">>}}

\* identifiers without a hyphen-delimited <digits><3 capitals><2 digits>
\* token, and one with only five fields
TokenFirst ==
    <<"1", "0", "A", "P", "R", "2", "2">> \o Hyphen \o Strike34000
        \o Hyphen \o <<"C">>

TokenLast == DEC \o Hyphen \o <<"B", "T", "C">> \o Hyphen
                 \o <<"1", "0", "A", "P", "R", "2", "2">>

LowerMonth == MarketName(<<"1", "0">>, <<"a", "p", "r">>, <<"2", "2">>,
                         Strike34000, <<"C">>)

NoDay == MarketName(<< >>, <<"A", "P", "R">>, <<"2", "2">>,
                    Strike34000, <<"C">>)

OneDigitYear == MarketName(<<"1", "0">>, <<"A", "P", "R">>, <<"2">>,
                           Strike34000, <<"C">>)

FourLetters == MarketName(<<"1", "0">>, <<"A", "P", "R">>, <<"I", "2", "2">>,
                          Strike34000, <<"C">>)

ThreeDigitYear == MarketName(<<"1", "0">>, <<"A", "P", "R">>,
                             <<"2", "2", "2">>, Strike34000, <<"C">>)

FiveFields == <<"d", "e", "r", "i", "b", "i", "t">> \o Hyphen
                  \o <<"B", "T", "C">> \o Hyphen
                  \o <<"1", "0", "A", "P", "R", "2", "2">> \o Hyphen
                  \o Strike34000 \o Hyphen \o <<"C">>

Malformed ==
    {NoneVal, << >>, Perpetual, OneDigitDay, ThreeDigitDay, UnknownMonth,
     <<"d", "e", "r", "i", "b", "i", "t">>,
     <<"B", "T", "C">> \o Hyphen \o <<"1", "0", "A", "P", "R", "2", "2">>,
     Hyphen \o <<"1", "0", "A", "P", "R", "2", "2">> \o Hyphen,
     TokenFirst, TokenLast, LowerMonth, NoDay, OneDigitYear, FourLetters,
     ThreeDigitYear, FiveFields}

ParserInputs == WellFormed \cup Malformed

-----------------------------------------------------------------------------
(* The parsers applied to one identifier (SpecParse) *)

NoStrike == [has_strike |-> FALSE, strike |-> 0, option_type |-> NoneVal]

ParseIdle ==
    /\ market_name = NoneVal
    /\ applied = {}
    /\ expiration_date = NoneVal
    /\ expiration_str = NoneVal
    /\ strike_type = NoStrike

RunIdle ==
    /\ script = "none"
    /\ api_key = FALSE
    /\ args = [start |-> NoDate, end |-> NoDate, days_before_expiry |-> 22]
    /\ utcnow = 0
    /\ start_date = 0
    /\ end_date = 0
    /\ days_before_expiry = 0
    /\ remote = << >>
    /\ catalog = << >>
    /\ grouped_markets = << >>
    /\ tasks = << >>
    /\ i = 0
    /\ ready = << >>
    /\ results = << >>
    /\ successful = -1
    /\ pc = "idle"
    /\ err = "none"
    /\ returned = "pending"
    /\ batches = << >>
    /\ pauses = 0
    /\ calls = << >>
    /\ catalog_calls = 0
    /\ peak = 0

ParseInit ==
    /\ market_name \in ParserInputs
    /\ applied = {}
    /\ expiration_date = NoneVal
    /\ expiration_str = NoneVal
    /\ strike_type = NoStrike
    /\ RunIdle

ExtractExpirationDate ==
    /\ pc = "idle"
    /\ "market_utils" \notin applied
    /\ applied' = applied \cup {"market_utils"}
    /\ expiration_date' = extract_expiration_date(market_name)
    /\ UNCHANGED <<market_name, expiration_str, strike_type, runVars>>

AnalyzeExtractExpirationDate ==
    /\ pc = "idle"
    /\ "analyze_catalog" \notin applied
    /\ applied' = applied \cup {"analyze_catalog"}
    /\ expiration_str' = analyze_extract_expiration_date(market_name)
    /\ UNCHANGED <<market_name, expiration_date, strike_type, runVars>>

ExtractStrikeAndType ==
    /\ pc = "idle"
    /\ "strike_and_type" \notin applied
    /\ applied' = applied \cup {"strike_and_type"}
    /\ strike_type' = extract_strike_and_type(market_name)
    /\ UNCHANGED <<market_name, expiration_date, expiration_str, runVars>>

ParseNext ==
    \/ ExtractExpirationDate
    \/ AnalyzeExtractExpirationDate
    \/ ExtractStrikeAndType

SpecParse == ParseInit /\ [][ParseNext]_vars

-----------------------------------------------------------------------------
(* A collection run: entry point, catalog, grouping (Spec) *)

RunInit ==
    /\ script \in {"main.py", "greeks.py"}
    /\ api_key \in BOOLEAN
    /\ args \in IF script = "main.py"
                THEN [start : StartArgs, end : EndArgs,
                      days_before_expiry : Lookbacks]
                ELSE {[start |-> NoDate, end |-> NoDate,
                       days_before_expiry |-> 22]}
    /\ utcnow \in Nows
    /\ remote \in Catalogs
    /\ start_date = 0
    /\ end_date = 0
    /\ days_before_expiry = 0
    /\ catalog = << >>
    /\ grouped_markets = << >>
    /\ tasks = << >>
    /\ i = 0
    /\ ready = << >>
    /\ results = << >>
    /\ successful = -1
    /\ pc = "boot"
    /\ err = "none"
    /\ returned = "pending"
    /\ batches = << >>
    /\ pauses = 0
    /\ calls = << >>
    /\ catalog_calls = 0
    /\ peak = 0

Init == ParseIdle /\ RunInit

\* datetime.strptime(arg, '%Y-%m-%d')
Strptime(a) == Datetime(a.y, a.m, a.d, 0)

\* main.py run without CM_API_KEY: prints the error, never calls main()
MainRefuses ==
    /\ pc = "boot"
    /\ script = "main.py"
    /\ ~api_key
    /\ pc' = "refused"
    /\ UNCHANGED <<parseVars, returned, script, api_key, args, utcnow,
                   start_date, end_date, days_before_expiry, remote, catalog,
                   grouped_markets, tasks, i, ready, results, successful,
                   err, batches, pauses, calls, catalog_calls, peak>>

\* main.py's main() up to the call of save_greeks_data
Main ==
    /\ pc = "boot"
    /\ script = "main.py"
    /\ api_key
    /\ LET e == IF args.end # NoDate THEN Strptime(args.end) ELSE utcnow
       IN  /\ end_date' = e
           /\ start_date' = IF args.start # NoDate THEN Strptime(args.start)
                            ELSE e - 30 * HoursPerDay
    /\ days_before_expiry' = args.days_before_expiry
    /\ pc' = "init_client"
    /\ UNCHANGED <<parseVars, returned, script, api_key, args, utcnow,
                   remote, catalog,
                   grouped_markets, tasks, i, ready, results, successful,
                   err, batches, pauses, calls, catalog_calls, peak>>

\* greeks.py's own main(): a fixed range and lookback
GreeksMain ==
    /\ pc = "boot"
    /\ script = "greeks.py"
    /\ end_date' = Datetime(2025, 1, 1, 0)
    /\ start_date' = Datetime(2025, 1, 1, 0) - 30 * HoursPerDay
    /\ days_before_expiry' = 22
    /\ pc' = "init_client"
    /\ UNCHANGED <<parseVars, returned, script, api_key, args, utcnow,
                   remote, catalog,
                   grouped_markets, tasks, i, ready, results, successful,
                   err, batches, pauses, calls, catalog_calls, peak>>

\* variant: the client is built without looking for the key
init_client_unchecked(key) == "client"

\* init_client of greeks.py: the client, or the ValueError raised when
\* CM_API_KEY is not in the environment
init_client(key) == IF key THEN "client" ELSE "ValueError"

\* init_client of market_utils.py, a second copy of the same check
market_utils_init_client(key) == IF key THEN "client" ELSE "ValueError"

\* save_greeks_data: client = init_client()
InitClient ==
    /\ pc = "init_client"
    /\ IF init_client(api_key) = "ValueError"
       THEN pc' = "raised" /\ err' = "ValueError"
       ELSE pc' = "catalog" /\ err' = err
    /\ UNCHANGED <<parseVars, returned, script, api_key, args, utcnow,
                   start_date, end_date, days_before_expiry, remote, catalog,
                   grouped_markets, tasks, i, ready, results, successful,
                   batches, pauses, calls, catalog_calls, peak>>

NotNa(row) == row.expiration_date # NoneVal

\* catalog['expiration_date'] = catalog['market'].apply(extract_expiration_date)
\* catalog = catalog[catalog['expiration_date'].notna()]
ParsedRows(names) ==
    SelectSeq([k \in 1..Len(names) |->
                 [market |-> names[k],
                  expiration_date |-> extract_expiration_date(names[k])]],
              NotNa)

\* get_markets_with_expiry: the catalog request returns the remote names or
\* raises; the names are parsed, rows without a date dropped, and the dates
\* converted by pd.to_datetime, which raises on a string that is no date.
\* No exception is caught here or in save_greeks_data.
GetMarketsWithExpiry ==
    /\ pc = "catalog"
    /\ \E outcome \in {"returns", "raises"} :
        IF market_utils_init_client(api_key) = "ValueError"
        THEN /\ pc' = "raised"
             /\ err' = "ValueError"
             /\ UNCHANGED <<catalog, catalog_calls>>
        ELSE IF outcome = "raises"
        THEN /\ pc' = "raised"
             /\ err' = "CatalogError"
             /\ catalog_calls' = catalog_calls + 1
             /\ catalog' = catalog
        ELSE LET rows == ParsedRows(remote)
             IN  /\ catalog_calls' = catalog_calls + 1
                 /\ IF \E k \in 1..Len(rows) :
                           ToDatetimeRaises(rows[k].expiration_date)
                    THEN /\ pc' = "raised"
                         /\ err' = "DateParseError"
                         /\ catalog' = catalog
                    ELSE /\ pc' = "group"
                         /\ err' = err
                         /\ catalog' =
                              [k \in 1..Len(rows) |->
                                 [market |-> rows[k].market,
                                  expiration_date |->
                                     ToDatetime(rows[k].expiration_date)]]
    /\ UNCHANGED <<parseVars, returned, script, api_key, args, utcnow,
                   start_date, end_date, days_before_expiry, remote,
                   grouped_markets, tasks, i, ready, results, successful,
                   batches, pauses, calls, peak>>

\* variant: groupby(..., ascending keys) replaced by descending keys
RECURSIVE Descending(_)
Descending(S) ==
    IF S = {} THEN << >>
    ELSE LET greatest == CHOOSE x \in S : \A y \in S : x >= y
         IN  <<greatest>> \o Descending(S \ {greatest})

\* the set S of integers as an ascending sequence
RECURSIVE Ascending(_)
Ascending(S) ==
    IF S = {} THEN << >>
    ELSE LET least == CHOOSE x \in S : \A y \in S : x <= y
         IN  <<least>> \o Ascending(S \ {least})

\* (catalog['expiration_date'] >= start_date) &
\* (catalog['expiration_date'] <= end_date)
InRange(ts, start, end) == ts >= start /\ ts <= end

\* fetch_markets_by_expiry_date: the rows in range, grouped by
\* expiration_date.dt.date; groupby yields the keys in ascending order and
\* keeps the rows of a group in catalog order
fetch_markets_by_expiry_date(cat, start, end) ==
    LET Keep(row) == InRange(row.expiration_date, start, end)
        filtered_catalog == SelectSeq(cat, Keep)
        keys == Ascending({DateOf(filtered_catalog[k].expiration_date) :
                              k \in 1..Len(filtered_catalog)})
        GroupOf(d) ==
            LET Same(row) == DateOf(row.expiration_date) = d
                group == SelectSeq(filtered_catalog, Same)
            IN  [k \in 1..Len(group) |-> group[k].market]
    IN  [k \in 1..Len(keys) |->
            [expiry_date |-> keys[k], markets |-> GroupOf(keys[k])]]

\* save_greeks_data: grouped_markets = fetch_markets_by_expiry_date(...)
GroupMarkets ==
    /\ pc = "group"
    /\ grouped_markets' =
          fetch_markets_by_expiry_date(catalog, start_date, end_date)
    /\ pc' = "tasks"
    /\ UNCHANGED <<parseVars, returned, script, api_key, args, utcnow,
                   start_date, end_date, days_before_expiry, remote, catalog, tasks, i,
                   ready, results, successful, err, batches, pauses, calls,
                   catalog_calls, peak>>

-----------------------------------------------------------------------------
(* The batched fetch orchestrator: save_greeks_data and its tasks *)

MAX_CONCURRENT_TASKS == 5

\* whether fetch_greeks_for_expiry awaits its fetch/export call: it calls
\* client.get_market_greeks(...).parallel().export_to_csv_files() as a plain
\* blocking call, and its body holds no await at all
AwaitsFetch == FALSE

Fetching == {t \in 1..Len(tasks) : tasks[t].status = "fetching"}

\* save_greeks_data: if not grouped_markets: return None; else one
\* coroutine per group, in the dict's order
\* variant: a single group is also treated as nothing to fetch
NoMarketsFoundUpToOne(grouped) == Len(grouped) <= 1

\* `not grouped_markets`: the grouping has no key
NoMarketsFound(grouped) == grouped = << >>

CreateTasks ==
    /\ pc = "tasks"
    /\ IF NoMarketsFound(grouped_markets)
       THEN pc' = "nothing" /\ tasks' = tasks /\ returned' = "None"
       ELSE /\ pc' = "loop"
            /\ returned' = returned
            /\ tasks' = [k \in 1..Len(grouped_markets) |->
                           [markets |-> grouped_markets[k].markets,
                            expiry_date |-> grouped_markets[k].expiry_date,
                            status |-> "created",
                            outcome |-> "none",
                            result |-> FALSE]]
    /\ i' = 0
    /\ UNCHANGED <<parseVars, script, api_key, args, utcnow, start_date,
                   end_date, days_before_expiry, remote, catalog,
                   grouped_markets, ready, results, successful, err, batches,
                   pauses, calls, catalog_calls, peak>>

\* variant: tasks[i:], the cap forgotten
BatchSliceNoCap(from, n) == [k \in 1..(n - from) |-> from + k]

\* tasks[i:i+MAX_CONCURRENT_TASKS], as the (1-based) positions in tasks
BatchSlice(from, n) ==
    [k \in 1..(Min(from + MAX_CONCURRENT_TASKS, n) - from) |-> from + k]

\* for i in range(0, len(tasks), MAX_CONCURRENT_TASKS): the next batch is
\* handed to asyncio.gather, which schedules its coroutines as tasks in
\* order; after the last batch the loop ends
LoopHead ==
    /\ pc = "loop"
    /\ IF i < Len(tasks)
       THEN LET batch == BatchSlice(i, Len(tasks))
                in_batch == {batch[k] : k \in 1..Len(batch)}
            IN  /\ tasks' = [t \in 1..Len(tasks) |->
                               IF t \in in_batch
                               THEN [tasks[t] EXCEPT !.status = "scheduled"]
                               ELSE tasks[t]]
                /\ ready' = ready \o batch
                /\ batches' = Append(batches, batch)
                /\ peak' = 0
                /\ pc' = "gather"
       ELSE /\ pc' = "summary"
            /\ UNCHANGED <<tasks, ready, batches, peak>>
    /\ UNCHANGED <<parseVars, returned, script, api_key, args, utcnow,
                   start_date, end_date, days_before_expiry, remote, catalog,
                   grouped_markets, i, results, successful, err, pauses,
                   calls, catalog_calls>>

\* fetch_greeks_for_expiry up to its fetch/export call: the event loop runs
\* the task at the head of its queue.  The window is computed outside the
\* try block, so an OverflowError there leaves the coroutine; otherwise the
\* collaborator is called.  A task inside a blocking collaborator call
\* holds the only thread, so no other task starts meanwhile.
TaskStart ==
    /\ ready # << >>
    /\ AwaitsFetch \/ Fetching = {}
    /\ LET t == Head(ready)
           window == calculate_data_period_for_expiry(tasks[t].expiry_date,
                                                      days_before_expiry)
       IN  /\ tasks[t].status = "scheduled"
           /\ IF WindowRaises(tasks[t].expiry_date, days_before_expiry)
              THEN /\ tasks' = [tasks EXCEPT ![t].status = "failed",
                                             ![t].outcome = "window"]
                   /\ UNCHANGED <<calls, peak>>
              ELSE /\ tasks' = [tasks EXCEPT ![t].status = "fetching"]
                   /\ calls' = Append(calls,
                                      [task |-> t,
                                       markets |-> tasks[t].markets,
                                       start_time |-> window[1],
                                       end_time |-> window[2]])
                   /\ peak' = Max(peak, Cardinality(Fetching) + 1)
    /\ ready' = Tail(ready)
    /\ UNCHANGED <<parseVars, returned, script, api_key, args, utcnow,
                   start_date, end_date, days_before_expiry, remote, catalog,
                   grouped_markets, i, results, successful, pc, err, batches,
                   pauses, catalog_calls>>

\* the fetch/export call returns: return True
OnFetchReturn(task) ==
    [task EXCEPT !.status = "done", !.outcome = "returned", !.result = TRUE]

\* variant: no try/except around the call
OnFetchRaiseUncaught(task) ==
    [task EXCEPT !.status = "failed", !.outcome = "raised"]

\* the fetch/export call raises: except Exception ... return False
OnFetchRaise(task) ==
    [task EXCEPT !.status = "done", !.outcome = "raised", !.result = FALSE]

FetchReturn(t) ==
    /\ tasks[t].status = "fetching"
    /\ tasks' = [tasks EXCEPT ![t] = OnFetchReturn(tasks[t])]
    /\ UNCHANGED <<parseVars, returned, script, api_key, args, utcnow,
                   start_date, end_date, days_before_expiry, remote, catalog,
                   grouped_markets, i, ready, results, successful, pc, err,
                   batches, pauses, calls, catalog_calls, peak>>

FetchRaise(t) ==
    /\ tasks[t].status = "fetching"
    /\ tasks' = [tasks EXCEPT ![t] = OnFetchRaise(tasks[t])]
    /\ UNCHANGED <<parseVars, returned, script, api_key, args, utcnow,
                   start_date, end_date, days_before_expiry, remote, catalog,
                   grouped_markets, i, ready, results, successful, pc, err,
                   batches, pauses, calls, catalog_calls, peak>>

Settled(t) == tasks[t].status \in {"done", "failed"}

\* variant: gather returning at the first settled task
BatchSettledAny(batch) == \E k \in 1..Len(batch) : Settled(batch[k])

\* asyncio.gather(*batch) completes when every task of the batch has
BatchSettled(batch) == \A k \in 1..Len(batch) : Settled(batch[k])

\* variant: <= in place of <, a pause after a full last batch
PauseNeededAlways(from, n) == from + MAX_CONCURRENT_TASKS <= n

\* if i + MAX_CONCURRENT_TASKS < len(tasks)
PauseNeeded(from, n) == from + MAX_CONCURRENT_TASKS < n

\* batch_results = await asyncio.gather(*batch) resumes: an exception of a
\* task is raised in save_greeks_data, which catches nothing; otherwise
\* results.extend(batch_results), then the pause or the next iteration
GatherDone ==
    /\ pc = "gather"
    /\ LET batch == batches[Len(batches)]
       IN  /\ BatchSettled(batch)
           /\ IF \E k \in 1..Len(batch) : tasks[batch[k]].status = "failed"
              THEN /\ pc' = "raised"
                   /\ err' = IF \E k \in 1..Len(batch) :
                                   tasks[batch[k]].outcome = "window"
                             THEN "OverflowError" ELSE "FetchError"
                   /\ UNCHANGED <<results, pauses, i>>
              ELSE /\ results' = results \o
                        [k \in 1..Len(batch) |-> tasks[batch[k]].result]
                   /\ err' = err
                   /\ IF PauseNeeded(i, Len(tasks))
                      THEN pc' = "sleep" /\ pauses' = pauses + 1 /\ i' = i
                      ELSE /\ pc' = "loop"
                           /\ pauses' = pauses
                           /\ i' = i + MAX_CONCURRENT_TASKS
    /\ UNCHANGED <<parseVars, returned, script, api_key, args, utcnow,
                   start_date, end_date, days_before_expiry, remote, catalog,
                   grouped_markets, tasks, ready, successful, batches, calls,
                   catalog_calls, peak>>

\* await asyncio.sleep(2) returns
SleepDone ==
    /\ pc = "sleep"
    /\ pc' = "loop"
    /\ i' = i + MAX_CONCURRENT_TASKS
    /\ UNCHANGED <<parseVars, returned, script, api_key, args, utcnow,
                   start_date, end_date, days_before_expiry, remote, catalog,
                   grouped_markets, tasks, ready, results, successful, err,
                   batches, pauses, calls, catalog_calls, peak>>

\* variant: len(results), every settled task counted
CountAll(seq) == Len(seq)

\* results.count(True)
CountTrue(seq) == Cardinality({k \in 1..Len(seq) : seq[k]})

\* successful = results.count(True) and the final report
\* variant: the body ends with `return successful`
ReturnsSuccessful == "successful"

\* the body of save_greeks_data ends after its last print, without a
\* return statement: the caller receives None
ImplicitReturn == "None"

Summary ==
    /\ pc = "summary"
    /\ successful' = CountTrue(results)
    /\ returned' = ImplicitReturn
    /\ pc' = "done"
    /\ UNCHANGED <<parseVars, script, api_key, args, utcnow, start_date,
                   end_date, days_before_expiry, remote, catalog,
                   grouped_markets, tasks, i, ready, results, err, batches,
                   pauses, calls, catalog_calls, peak>>

Next ==
    \/ MainRefuses
    \/ Main
    \/ GreeksMain
    \/ InitClient
    \/ GetMarketsWithExpiry
    \/ GroupMarkets
    \/ CreateTasks
    \/ LoopHead
    \/ TaskStart
    \/ \E t \in 1..Len(tasks) : FetchReturn(t)
    \/ \E t \in 1..Len(tasks) : FetchRaise(t)
    \/ GatherDone
    \/ SleepDone
    \/ Summary

Spec == Init /\ [][Next]_vars

-----------------------------------------------------------------------------
(* Claims about the parsers, under SpecParse *)

\* C1: for every identifier <exch>-<asset>-<DDMMMYY>-<strike>-<C|P>-option
\* with a numeric strike, extract_strike_and_type returns the strike encoded
\* in the string as a number and the option-type letter encoded in it.
C1_StrikeAndTypeRecovered ==
    \A dd \in ParserDays, m \in 1..12, yy \in ParserYears,
       k \in ParserStrikes, t \in {<<"C">>, <<"P">>} :
        ( /\ market_name = MarketName(dd, MonthCodes[m], yy, k, t)
          /\ "strike_and_type" \in applied )
        => strike_type = [has_strike |-> TRUE, strike |-> DecVal(k),
                          option_type |-> t]

\* C2: for every identifier <exch>-<asset>-<DDMMMYY>-<strike>-<C|P>-option
\* with a two-digit day, one of the 12 month codes and a two-digit year,
\* both copies of extract_expiration_date return the date with day DD, the
\* month number of MMM and year 2000 + YY (the analysis copy followed by
\* its fixed time of day).
C2_ExpiryRecovered ==
    \A dd \in ParserDays, m \in 1..12, yy \in ParserYears :
        (\E k \in ParserStrikes, t \in {<<"C">>, <<"P">>} :
            market_name = MarketName(dd, MonthCodes[m], yy, k, t))
        => /\ "market_utils" \in applied =>
                /\ expiration_date # NoneVal
                /\ Len(expiration_date) = 10
                /\ expiration_date[5] = "-" /\ expiration_date[8] = "-"
                /\ IsoYear(expiration_date) = 2000 + DecVal(yy)
                /\ IsoMonth(expiration_date) = m
                /\ IsoDay(expiration_date) = DecVal(dd)
           /\ "analyze_catalog" \in applied =>
                /\ expiration_str # NoneVal
                /\ Len(expiration_str) = 10 + Len(TimeSuffix)
                /\ expiration_str[5] = "-" /\ expiration_str[8] = "-"
                /\ IsoYear(expiration_str) = 2000 + DecVal(yy)
                /\ IsoMonth(expiration_str) = m
                /\ IsoDay(expiration_str) = DecVal(dd)
                /\ SubSeq(expiration_str, 11, Len(expiration_str)) = TimeSuffix

\* deribit-BTC-10APR22-34000-C-option has been parsed to 2022-04-10 by both
\* copies
C2_Witness ==
    /\ market_name = MarketName(<<"1", "0">>, MonthCodes[4], <<"2", "2">>,
                                Strike34000, <<"C">>)
    /\ applied = {"market_utils", "analyze_catalog", "strike_and_type"}
    /\ expiration_date = <<"2", "0", "2", "2", "-", "0", "4", "-", "1", "0">>
    /\ expiration_str = expiration_date \o TimeSuffix

-----------------------------------------------------------------------------
(* Claims about a collection run, under Spec *)

\* the groups of grouped_markets that hold the market of catalog row k
Holders(k) ==
    {g \in 1..Len(grouped_markets) :
        \E j \in 1..Len(grouped_markets[g].markets) :
            grouped_markets[g].markets[j] = catalog[k].market}

\* C3: after grouping, every catalog entry whose expiry day d lies between
\* the day of start_date and the day of end_date, both days included, is in
\* exactly one group, the one keyed by d, and every other entry is in none;
\* also for start/end datetimes with a time of day.
C3_GroupingCoversClosedRange ==
    pc = "tasks" =>
        \A k \in 1..Len(catalog) :
            LET d == DateOf(catalog[k].expiration_date)
            IN  IF DateOf(start_date) <= d /\ d <= DateOf(end_date)
                THEN /\ Cardinality(Holders(k)) = 1
                     /\ \A g \in Holders(k) :
                            grouped_markets[g].expiry_date = d
                ELSE Holders(k) = {}

\* ceil(n / MAX_CONCURRENT_TASKS)
BatchCount(n) == (n + MAX_CONCURRENT_TASKS - 1) \div MAX_CONCURRENT_TASKS

\* C4: for n >= 1 groups the orchestrator runs exactly ceil(n/5) batches,
\* consecutive slices of the task list of size 5 except a possibly smaller
\* last one, and pauses exactly ceil(n/5) - 1 times: once between
\* consecutive batches, never after the last.
C4_BatchesAndPauses ==
    LET n == Len(tasks)
    IN  n >= 1 =>
        /\ \A b \in 1..Len(batches) :
              LET from == MAX_CONCURRENT_TASKS * (b - 1)
              IN  /\ from < n
                  /\ batches[b] =
                       [k \in 1..Min(MAX_CONCURRENT_TASKS, n - from) |->
                          from + k]
        /\ Len(batches) <= BatchCount(n)
        /\ pauses <= BatchCount(n) - 1
        /\ pc = "gather" => pauses = Len(batches) - 1
        /\ pc = "sleep" => pauses = Len(batches)
        /\ pc \in {"summary", "done"} =>
              /\ Len(batches) = BatchCount(n)
              /\ pauses = BatchCount(n) - 1

\* a run over 12 groups has ended after batches of 5, 5, 2 and 2 pauses
C4_Witness ==
    /\ pc = "done"
    /\ Len(tasks) = 12
    /\ Len(batches) = 3
    /\ Len(batches[1]) = 5 /\ Len(batches[2]) = 5 /\ Len(batches[3]) = 2
    /\ pauses = 2

\* the batch (position in batches) task t belongs to
BatchOf(t) == (t - 1) \div MAX_CONCURRENT_TASKS + 1

\* C5: a fetch/export call that raises settles its own task with False and
\* nothing else: the run does not raise because of it, every task of a batch
\* the run has moved past has run to completion, and every task whose call
\* did not raise is counted as a success in the final count.
C5_FailureIsolated ==
    /\ \A t \in 1..Len(tasks) :
          tasks[t].outcome = "raised" =>
              tasks[t].status = "done" /\ tasks[t].result = FALSE
    /\ pc = "raised" => err # "FetchError"
    /\ \A t \in 1..Len(results) :
          /\ tasks[t].status = "done"
          /\ results[t] = (tasks[t].outcome = "returned")
    /\ pc = "done" =>
          /\ Len(results) = Len(tasks)
          /\ successful =
               Cardinality({t \in 1..Len(tasks) :
                               tasks[t].outcome = "returned"})

\* a run has ended in which a call of the first batch raised and a sibling's
\* call returned and was counted
C5_Witness ==
    /\ pc = "done"
    /\ Len(tasks) >= 2
    /\ \E t, u \in 1..Len(tasks) :
          /\ BatchOf(t) = 1 /\ BatchOf(u) = 1
          /\ tasks[t].outcome = "raised"
          /\ tasks[u].outcome = "returned"
          /\ results[u]
    /\ successful >= 1

\* C6: no task of batch k+1 starts before every task of batch k has settled
\* and the pause after batch k has finished.
C6_BatchesInSequence ==
    \A t \in 1..Len(tasks) :
        /\ tasks[t].status # "created" =>
              /\ \A u \in 1..(MAX_CONCURRENT_TASKS * (BatchOf(t) - 1)) :
                    Settled(u)
              /\ pauses >= BatchOf(t) - 1
              /\ BatchOf(t) <= Len(batches)
        /\ tasks[t].status \in {"scheduled", "fetching"} =>
              pc = "gather" /\ BatchOf(t) = Len(batches)

\* a task of the second batch is inside its fetch, after the first pause
C6_Witness ==
    /\ Len(tasks) > MAX_CONCURRENT_TASKS
    /\ tasks[MAX_CONCURRENT_TASKS + 1].status = "fetching"
    /\ pauses = 1
    /\ \A u \in 1..MAX_CONCURRENT_TASKS : Settled(u)

\* C7: in a batch of two or more tasks the fetch calls overlap: a second
\* task starts its fetch while the first task's fetch has not settled.
C7_FetchesOverlap ==
    ( /\ pc = "gather"
      /\ Len(batches[Len(batches)]) >= 2
      /\ \A k \in 1..Len(batches[Len(batches)]) :
            tasks[batches[Len(batches)][k]].outcome \in {"returned", "raised"} )
    => peak >= 2

Unsettled == {t \in 1..Len(tasks) : tasks[t].status \in {"scheduled", "fetching"}}

\* C8: at every moment the number of fetch tasks started and not yet
\* settled is at most MAX_CONCURRENT_TASKS.
C8_ConcurrencyCap ==
    /\ Cardinality(Unsettled) <= MAX_CONCURRENT_TASKS
    /\ Cardinality(Fetching) <= MAX_CONCURRENT_TASKS

\* a full batch is under way in a run of more groups than the cap
C8_Witness ==
    /\ Len(tasks) > MAX_CONCURRENT_TASKS
    /\ Cardinality(Unsettled) = MAX_CONCURRENT_TASKS
    /\ Fetching # {}

\* C9: whatever goes wrong inside one fetch task, its window computation or
\* its fetch/export call, the task settles with False and the run does not
\* raise because of it.
C9_TaskFailureContained ==
    /\ \A t \in 1..Len(tasks) :
          tasks[t].outcome \in {"window", "raised"} =>
              tasks[t].status = "done" /\ tasks[t].result = FALSE
    /\ pc = "raised" => err \notin {"OverflowError", "FetchError"}

\* C10: no failure of a call to the market-data collaborator, the catalog
\* request included, leaves the run: a run raises only for a missing
\* credential.
C10_CollaboratorFailureContained ==
    pc = "raised" => err \notin {"CatalogError", "FetchError"}

\* the positions of a run at which the grouping has been computed
AfterGrouping ==
    {"tasks", "nothing", "loop", "gather", "sleep", "summary", "done"}

\* the catalog rows whose expiry day lies within the requested days
RowsOnRequestedDays ==
    {k \in 1..Len(catalog) :
        /\ DateOf(catalog[k].expiration_date) >= DateOf(start_date)
        /\ DateOf(catalog[k].expiration_date) <= DateOf(end_date)}

\* C11: when no catalog entry has its expiry in the requested range the
\* grouping is empty, and with an empty grouping the orchestrator returns
\* early without error, without a fetch/export call and without a pause; a
\* non-empty grouping never takes that early return.
C11_EmptyGroupingReturnsEarly ==
    /\ (pc \in AfterGrouping /\ RowsOnRequestedDays = {}) =>
           grouped_markets = << >>
    /\ pc = "nothing" =>
           /\ grouped_markets = << >>
           /\ tasks = << >> /\ batches = << >> /\ calls = << >>
           /\ pauses = 0 /\ err = "none" /\ returned = "None"
    /\ (pc \in AfterGrouping \ {"tasks"} /\ grouped_markets = << >>) =>
           pc = "nothing"
    /\ (tasks # << >> \/ calls # << >> \/ pauses > 0) =>
           grouped_markets # << >>

\* the early return taken with a catalog that has entries, none in range
C11_Witness ==
    /\ pc = "nothing"
    /\ catalog # << >>
    /\ returned = "None"
    /\ calls = << >> /\ pauses = 0

\* C12 as stated: with CM_API_KEY absent, a run stops with a raised
\* configuration error before any catalog request or fetch/export call,
\* and the collaborator is never called.
C12_MissingKeyRaises ==
    ~api_key =>
        /\ catalog_calls = 0 /\ calls = << >>
        /\ pc \in {"boot", "init_client", "raised"}
        /\ pc = "raised" => err = "ValueError"

\* C12, amended: with CM_API_KEY absent the collaborator is never called;
\* save_greeks_data stops at its init_client with a raised ValueError, and
\* the entry point of main.py stops before starting a collection, with a
\* printed message and no raised error.
C12_MissingKeyStopsBeforeAnyCall ==
    ~api_key =>
        /\ catalog_calls = 0 /\ calls = << >> /\ tasks = << >>
        /\ pc \in {"boot", "init_client", "raised", "refused"}
        /\ pc = "raised" => err = "ValueError" /\ script = "greeks.py"
        /\ pc = "refused" => err = "none" /\ script = "main.py"

\* save_greeks_data has raised the ValueError of init_client
C12_Witness ==
    /\ ~api_key
    /\ pc = "raised" /\ err = "ValueError"
    /\ catalog_calls = 0 /\ calls = << >>

\* an identifier from which a calendar date can be derived
HasValidExpiry(name) ==
    /\ extract_expiration_date(name) # NoneVal
    /\ LET iso == extract_expiration_date(name)
       IN  IsValidDate(IsoYear(iso), IsoMonth(iso), IsoDay(iso))

\* C13: building the catalog never raises because of the content of a
\* market identifier; the identifiers from which no valid calendar date can
\* be derived are removed and every other entry is kept.
C13_UnparseableNamesDropped ==
    /\ pc = "raised" => err # "DateParseError"
    /\ pc \in AfterGrouping \cup {"group"} =>
           [k \in 1..Len(catalog) |-> catalog[k].market]
               = SelectSeq(remote, HasValidExpiry)

\* the tasks whose window computation has run
WindowComputed ==
    {t \in 1..Len(tasks) : tasks[t].status \notin {"created", "scheduled"}}

\* the fetch/export calls made by task t
CallsOf(t) == {c \in 1..Len(calls) : calls[c].task = t}

\* the window handed to the collaborator ends on the expiry day at 00:00
\* and is exactly n days long
ExactWindow(call, expiry_date, n) ==
    /\ DateOf(call.end_time) = expiry_date
    /\ call.end_time % HoursPerDay = 0
    /\ call.end_time - call.start_time = n * HoursPerDay

\* C14 as stated: for every expiry date and every lookback n >= 0 the
\* window computation returns (start, end) with end the expiry date at the
\* reference time of day and end - start exactly n days.
C14_WindowForEveryLookback ==
    \A t \in WindowComputed :
        \E c \in CallsOf(t) :
            ExactWindow(calls[c], tasks[t].expiry_date, days_before_expiry)

\* C14, amended: the window computation returns (start, end) with end the
\* expiry date at 00:00 and end - start exactly n days, unclamped, for every
\* lookback n >= 0 that keeps start at or after datetime.min; for a larger
\* lookback it raises instead of returning a pair.
C14_WindowWithinDatetimeRange ==
    \A t \in WindowComputed :
        IF tasks[t].expiry_date - days_before_expiry >= DateOf(MinDatetime)
        THEN /\ tasks[t].outcome # "window"
             /\ \E c \in CallsOf(t) :
                   ExactWindow(calls[c], tasks[t].expiry_date,
                               days_before_expiry)
        ELSE tasks[t].outcome = "window" /\ CallsOf(t) = {}

\* a window of 22 days has been computed and handed to the collaborator
C14_Witness ==
    /\ days_before_expiry = 22
    /\ calls # << >>
    /\ calls[1].end_time - calls[1].start_time = 22 * HoursPerDay
    /\ calls[1].end_time = tasks[calls[1].task].expiry_date * HoursPerDay

\* the run of the scenario: main.py --start-date 2024-12-01
\* --end-date 2024-12-31 --days-before-expiry 22 over the two-entry catalog
Scenario ==
    /\ script = "main.py"
    /\ api_key
    /\ args = [start |-> Dec2024(1), end |-> Dec2024(31),
               days_before_expiry |-> 22]
    /\ remote = SmallCatalog

ScenarioGroups ==
    <<[expiry_date |-> Ordinal(2024, 12, 13),
       markets |-> <<Dec24(13, <<"C">>)>>],
      [expiry_date |-> Ordinal(2024, 12, 20),
       markets |-> <<Dec24(20, <<"P">>)>>]>>

ScenarioCalls ==
    <<[task |-> 1, markets |-> <<Dec24(13, <<"C">>)>>,
       start_time |-> Datetime(2024, 11, 21, 0),
       end_time |-> Datetime(2024, 12, 13, 0)],
      [task |-> 2, markets |-> <<Dec24(20, <<"P">>)>>,
       start_time |-> Datetime(2024, 11, 28, 0),
       end_time |-> Datetime(2024, 12, 20, 0)]>>

\* C15: in the scenario the run forms exactly the two groups 2024-12-13 and
\* 2024-12-20, one market each, and issues exactly two fetches, with the
\* windows [2024-11-21, 2024-12-13] and [2024-11-28, 2024-12-20].
C15_Scenario ==
    Scenario =>
        /\ pc \in AfterGrouping => grouped_markets = ScenarioGroups
        /\ \E n \in 0..2 : calls = SubSeq(ScenarioCalls, 1, n)
        /\ pc \in {"summary", "done"} => calls = ScenarioCalls
        /\ pc = "raised" => err = "CatalogError"

\* the scenario has run to its end with both fetches issued
C15_Witness ==
    /\ Scenario
    /\ pc = "done"
    /\ Len(grouped_markets) = 2
    /\ Len(calls) = 2

\* the hyphen-separated fields of s that have a hyphen on both sides
InnerFields(s) ==
    LET parts == Split(s)
    IN  {parts[k] : k \in 2..(Len(parts) - 1)}

\* a field of the shape <digits><3 capitals><2 digits>
IsExpiryToken(f) ==
    /\ Len(f) >= 6
    /\ \A k \in 1..(Len(f) - 5) : f[k] \in Digits
    /\ \A k \in (Len(f) - 4)..(Len(f) - 2) : f[k] \in Upper
    /\ \A k \in (Len(f) - 1)..Len(f) : f[k] \in Digits

LacksExpiryToken(name) ==
    ~IsString(name) \/ \A f \in InnerFields(name) : ~IsExpiryToken(f)

\* C16: for every input lacking a hyphen-delimited
\* <digits><3 capitals><2 digits> token, the empty string and a missing
\* name included, both copies of the expiry parser return None and do not
\* raise.
C16_NoTokenNoExpiry ==
    LacksExpiryToken(market_name) =>
        /\ "market_utils" \in applied => expiration_date = NoneVal
        /\ "analyze_catalog" \in applied => expiration_str = NoneVal

\* both copies have been applied to an identifier that carries the token
\* only at its end, with no hyphen after it
C16_Witness ==
    /\ market_name = TokenLast
    /\ LacksExpiryToken(market_name)
    /\ {"market_utils", "analyze_catalog"} \subseteq applied
    /\ expiration_date = NoneVal /\ expiration_str = NoneVal

\* the number of hyphen-separated fields of s
FieldCount(s) == 1 + Cardinality({k \in 1..Len(s) : s[k] = "-"})

\* C17: for every identifier with fewer than 6 hyphen-separated fields,
\* extract_strike_and_type returns (None, None) and does not raise.
C17_FewFieldsNoStrikeNoType ==
    (/\ IsString(market_name)
     /\ FieldCount(market_name) < 6
     /\ "strike_and_type" \in applied) =>
        /\ ~strike_type.has_strike
        /\ strike_type.option_type = NoneVal

\* extract_strike_and_type has been applied to an identifier of five fields
C17_Witness ==
    /\ market_name = FiveFields
    /\ FieldCount(market_name) = 5
    /\ "strike_and_type" \in applied
    /\ strike_type = NoStrike

\* C18 as stated: a run with at least one expiry group returns to its
\* caller the count of groups whose fetch succeeded.
C18_ReturnsSuccessCount ==
    (pc = "done" /\ grouped_markets # << >>) =>
        /\ returned = "successful"
        /\ successful \in 0..Len(grouped_markets)

\* C18, amended: a run with at least one expiry group computes the count of
\* groups whose fetch succeeded, a number between 0 and the number of
\* groups, reports it, and returns None to its caller.
C18_CountComputedNoneReturned ==
    /\ (pc = "done" /\ grouped_markets # << >>) =>
          /\ returned = "None"
          /\ successful \in 0..Len(grouped_markets)
          /\ successful =
                Cardinality({t \in 1..Len(tasks) : tasks[t].result})
    /\ (pc \notin {"done", "nothing"}) => returned = "pending"

\* a run of several groups has ended with some fetches succeeded and some
\* failed
C18_Witness ==
    /\ pc = "done"
    /\ returned = "None"
    /\ Len(grouped_markets) >= 2
    /\ successful >= 1
    /\ successful < Len(grouped_markets)

\* the groups whose fetch/export call completed without raising
Succeeded == {t \in 1..Len(tasks) : tasks[t].outcome = "returned"}

\* the groups whose task ended otherwise
Failed == {t \in 1..Len(tasks) : tasks[t].outcome \in {"raised", "window"}}

\* C19: at the final report the reported number of successes is the number
\* of groups whose fetch/export call completed without raising, the
\* reported total is the number of expiry groups, and successes plus failed
\* groups make the total.
C19_SummaryCount ==
    pc = "done" =>
        /\ successful = Cardinality(Succeeded)
        /\ Len(grouped_markets) = Len(tasks)
        /\ successful + Cardinality(Failed) = Len(grouped_markets)
        /\ successful >= 0 /\ successful <= Len(grouped_markets)

\* the final report of a run with more groups than one batch holds, some
\* succeeded and some failed
C19_Witness ==
    /\ pc = "done"
    /\ Len(grouped_markets) > MAX_CONCURRENT_TASKS
    /\ Succeeded # {} /\ Failed # {}
    /\ successful = Cardinality(Succeeded)

------------------------------------------------------------------------------
(* Progress of a run *)

\* the steps of save_greeks_data once its tasks exist, and of its tasks
OrchestratorStep ==
    \/ LoopHead
    \/ TaskStart
    \/ \E t \in 1..Len(tasks) : FetchReturn(t)
    \/ \E t \in 1..Len(tasks) : FetchRaise(t)
    \/ GatherDone
    \/ SleepDone
    \/ Summary

\* The event loop resumes every coroutine that can run (the orchestrator
\* and the tasks of the batch it awaits), asyncio.sleep(2) ends, and every
\* fetch/export call eventually returns or raises: no such step that stays
\* possible is put off for ever.
SpecLive == Init /\ [][Next]_vars /\ WF_vars(OrchestratorStep)

\* C21: provided every fetch/export call eventually returns or raises, a
\* run over a non-empty set of groups eventually reaches its final summary,
\* and at that point one boolean result has been recorded for every group.
C21_RunToCompletion ==
    (tasks # << >>) ~>
        (/\ pc \in {"summary", "done"}
         /\ Len(results) = Len(grouped_markets))

\* the batches that task t has been handed to gather in
BatchesOf(t) ==
    {b \in 1..Len(batches) : \E k \in 1..Len(batches[b]) : batches[b][k] = t}

\* the number of groups that expire before group g
EarlierGroups(g) ==
    Cardinality({h \in 1..Len(grouped_markets) :
                    grouped_markets[h].expiry_date
                        < grouped_markets[g].expiry_date})

\* C22: the groups are built in ascending expiry-date order and the task
\* list keeps that order, so batch k (counted from 0) holds the groups with
\* the (5k+1)-th to (5k+5)-th smallest expiry dates, and no group with a
\* later expiry date starts its fetch in an earlier batch than a group with
\* an earlier one.
C22_FetchOrderFollowsExpiryOrder ==
    /\ \A g, h \in 1..Len(grouped_markets) :
          g < h => grouped_markets[g].expiry_date
                       < grouped_markets[h].expiry_date
    /\ \A t \in 1..Len(tasks) :
          tasks[t].expiry_date = grouped_markets[t].expiry_date
    /\ \A b \in 1..Len(batches) :
          \A k \in 1..Len(batches[b]) :
              LET rank == EarlierGroups(batches[b][k]) + 1
              IN  /\ rank >= MAX_CONCURRENT_TASKS * (b - 1) + 1
                  /\ rank <= MAX_CONCURRENT_TASKS * (b - 1)
                                + MAX_CONCURRENT_TASKS
    /\ \A c, d \in 1..Len(calls) :
          tasks[calls[c].task].expiry_date < tasks[calls[d].task].expiry_date
              => /\ c < d
                 /\ \A b \in BatchesOf(calls[c].task) :
                       \A e \in BatchesOf(calls[d].task) : b <= e

\* the second batch of a run is fetching, over a catalog that lists its
\* entries from the latest expiry to the earliest
C22_Witness ==
    /\ remote = BigCatalog
    /\ Len(batches) = 2
    /\ Len(calls) > MAX_CONCURRENT_TASKS
    /\ Len(grouped_markets) > MAX_CONCURRENT_TASKS

\* C23: the two copies of the expiry parser agree on every input: they
\* return None for the same identifiers, and whenever they return a value
\* both denote the same calendar day, month and year.
C23_ParserCopiesAgree ==
    {"market_utils", "analyze_catalog"} \subseteq applied =>
        /\ expiration_date = NoneVal <=> expiration_str = NoneVal
        /\ expiration_date # NoneVal =>
              /\ IsoYear(expiration_date) = IsoYear(expiration_str)
              /\ IsoMonth(expiration_date) = IsoMonth(expiration_str)
              /\ IsoDay(expiration_date) = IsoDay(expiration_str)
              /\ SubSeq(expiration_str, 1, Len(expiration_date))
                    = expiration_date

\* both copies have returned a date for the same identifier
C23_Witness ==
    /\ {"market_utils", "analyze_catalog"} \subseteq applied
    /\ market_name \in WellFormed
    /\ expiration_date # NoneVal
    /\ expiration_str = expiration_date \o TimeSuffix

\* the <digits><3 capitals><2 digits> field of an identifier that has one
TokenOf(name) == CHOOSE f \in InnerFields(name) : IsExpiryToken(f)

\* the number of digits a token starts with
DayDigits(f) == Len(f) - 5

\* the midnight of the day a token with a two-digit day names
TokenDatetime(f) ==
    Datetime(2000 + DecVal(SubSeq(f, 6, 7)),
             CHOOSE m \in 1..12 : MonthCodes[m] = SubSeq(f, 3, 5),
             DecVal(SubSeq(f, 1, 2)),
             0)

\* an identifier whose token has a day part of exactly two digits
TwoDigitDay(name) ==
    /\ IsString(name)
    /\ ~LacksExpiryToken(name)
    /\ DayDigits(TokenOf(name)) = 2

\* the identifiers kept in the catalog
CatalogMarkets == {catalog[k].market : k \in 1..Len(catalog)}

\* C24: the expiry parser yields a date only when the day part of the
\* matched token has exactly two digits, and then the date the token
\* spells; a market whose token has a one-digit day (5APR22) or three
\* leading digits (123APR22) is dropped from the catalog and never fetched.
C24_DateOnlyFromTwoDigitDay ==
    /\ pc = "group" =>
          \A k \in 1..Len(catalog) :
              /\ TwoDigitDay(catalog[k].market)
              /\ catalog[k].expiration_date
                    = TokenDatetime(TokenOf(catalog[k].market))
    /\ CatalogMarkets \cap {OneDigitDay, ThreeDigitDay} = {}
    /\ \A g \in 1..Len(grouped_markets) :
          \A k \in 1..Len(grouped_markets[g].markets) :
              grouped_markets[g].markets[k] \in CatalogMarkets
    /\ \A c \in 1..Len(calls) :
          \A k \in 1..Len(calls[c].markets) :
              calls[c].markets[k] \in CatalogMarkets

\* a catalog that lists a one-digit-day and a three-digit-day market has
\* been built and its remaining markets fetched
C24_Witness ==
    /\ \E k \in 1..Len(remote) : remote[k] = OneDigitDay
    /\ \E k \in 1..Len(remote) : remote[k] = ThreeDigitDay
    /\ Len(catalog) = 2
    /\ calls # << >>

=============================================================================
